---- MODULE Spec2Model ----
(***************************************************************************)
(* Model of app.py: the PDF text extractor, the text normalizer, the       *)
(* analysis requester and the Streamlit script that drives them.           *)
(*                                                                         *)
(* Text is a sequence of one-character strings.  The one exception is the  *)
(* token HI, which stands for the fixed non-ASCII phrase of the letterhead *)
(* pattern (app.py line 50) taken as a whole.                              *)
(***************************************************************************)
EXTENDS Integers, Sequences, FiniteSets, TLC

VARIABLES
    \* --- normalizer harness (clean_extracted_text applied twice) ---
    cin, cout1, cout2, cpc,
    \* --- extractor (extract_text_from_pdf, one loop iteration per step) ---
    doc, max_pages, page_num, all_text, xpc, xret, xerrors, ocr_log,
    \* --- Streamlit session ---
    uploaded, has_key, extracted_text, notes, analysis, button_shown,
    clicks, llm_calls, analyze_calls, last_sent, last_event, extracted_now

cvars == <<cin, cout1, cout2, cpc>>
xvars == <<doc, max_pages, page_num, all_text, xpc, xret, xerrors, ocr_log>>
uvars == <<uploaded, has_key, extracted_text, notes, analysis, button_shown,
           clicks, llm_calls, analyze_calls, last_sent, last_event, extracted_now>>
vars == <<cvars, xvars, uvars>>

(***************************************************************************)
(* Characters and strings                                                  *)
(***************************************************************************)
None == <<"<None>">>
HI == "<hi>"
NL == "\n"
SP == " "

Digit == {"0", "1", "2", "3", "4", "5", "6", "7", "8", "9"}
LowerLetters == <<"a","b","c","d","e","f","g","h","i","j","k","l","m",
                  "n","o","p","q","r","s","t","u","v","w","x","y","z">>
UpperLetters == <<"A","B","C","D","E","F","G","H","I","J","K","L","M",
                  "N","O","P","Q","R","S","T","U","V","W","X","Y","Z">>
Letter == {LowerLetters[k] : k \in 1..26} \cup {UpperLetters[k] : k \in 1..26}
\* str.strip() and \s: the whitespace characters of the alphabet
Whitespace == {SP, NL}

\* str.lower(), one character
Lower(c) ==
    IF \E k \in 1..26 : UpperLetters[k] = c
    THEN LowerLetters[CHOOSE k \in 1..26 : UpperLetters[k] = c]
    ELSE c

Rep(c, n) == [k \in 1..n |-> c]

RECURSIVE Concat(_)
Concat(ss) == IF ss = <<>> THEN <<>> ELSE Head(ss) \o Concat(Tail(ss))

\* str.strip()
Strip(s) ==
    IF \A k \in 1..Len(s) : s[k] \in Whitespace THEN <<>>
    ELSE LET lo == CHOOSE k \in 1..Len(s) :
                      s[k] \notin Whitespace /\ \A j \in 1..(k - 1) : s[j] \in Whitespace
             hi == CHOOSE k \in 1..Len(s) :
                      s[k] \notin Whitespace /\ \A j \in (k + 1)..Len(s) : s[j] \in Whitespace
         IN  SubSeq(s, lo, hi)

\* str.startswith(lit) at position i, optionally ignoring case
MatchLit(s, i, lit, nocase) ==
    /\ i >= 1
    /\ i + Len(lit) - 1 <= Len(s)
    /\ \A k \in 1..Len(lit) :
          IF nocase THEN Lower(s[i + k - 1]) = Lower(lit[k])
                    ELSE s[i + k - 1] = lit[k]

\* length of the maximal run of characters of class cls starting at i
RunLen(s, i, cls) ==
    IF i > Len(s) THEN 0
    ELSE CHOOSE n \in 0..(Len(s) - i + 1) :
            /\ \A k \in 0..(n - 1) : s[i + k] \in cls
            /\ (i + n > Len(s) \/ s[i + n] \notin cls)

(***************************************************************************)
(* clean_extracted_text: the six substitutions and the final strip         *)
(***************************************************************************)
LitPage == <<"P","a","g","e"," ">>
LitOf == <<" ","o","f"," ">>
LitIssued == <<"I","s","s","u","e","d"," ","o","n",":"," ">>
LitComma == <<",", " ">>
LitYours == <<"Y","o","u","r","s"," ","f","a","i","t","h","f","u","l","l","y",",">>
LitS3 == <<"S","=","3">>
LitS31 == <<"S","3","1">>
LitHeadTail == <<" ", HI, NL>> \o
    <<"S","e","c","u","r","i","t","i","e","s"," ","a","n","d"," ",
      "E","x","c","h","a","n","g","e"," ","B","o","a","r","d"," ",
      "o","f"," ","I","n","d","i","a">>

\* r'(S=3|S31) <phrase>\nSecurities and Exchange Board of India', IGNORECASE
MatchHead(s, i) ==
    IF /\ (MatchLit(s, i, LitS3, TRUE) \/ MatchLit(s, i, LitS31, TRUE))
       /\ MatchLit(s, i + 3, LitHeadTail, TRUE)
    THEN 3 + Len(LitHeadTail) ELSE 0

\* r'Page \d+ of \d+'
MatchPage(s, i) ==
    LET d1 == RunLen(s, i + 5, Digit)
        d2 == RunLen(s, i + 5 + d1 + 4, Digit)
    IN  IF /\ MatchLit(s, i, LitPage, FALSE)
           /\ d1 >= 1
           /\ MatchLit(s, i + 5 + d1, LitOf, FALSE)
           /\ d2 >= 1
        THEN 5 + d1 + 4 + d2 ELSE 0

\* r'Issued on: [A-Za-z]+ \d{1,2}, \d{4}'
MatchIssued(s, i) ==
    LET l == RunLen(s, i + 11, Letter)
        d == RunLen(s, i + 11 + l + 1, Digit)
        y == RunLen(s, i + 11 + l + 1 + d + 2, Digit)
    IN  IF /\ MatchLit(s, i, LitIssued, FALSE)
           /\ l >= 1
           /\ MatchLit(s, i + 11 + l, <<SP>>, FALSE)
           /\ d \in {1, 2}
           /\ MatchLit(s, i + 11 + l + 1 + d, LitComma, FALSE)
           /\ y >= 4
        THEN 11 + l + 1 + d + 2 + 4 ELSE 0

\* r'Yours faithfully,'
MatchYours(s, i) == IF MatchLit(s, i, LitYours, FALSE) THEN Len(LitYours) ELSE 0

\* r'\*{3,}'
MatchStars(s, i) ==
    LET n == RunLen(s, i, {"*"}) IN IF n >= 3 THEN n ELSE 0

\* r'\n\s*\n\s*\n': from a newline to the last newline of the whitespace run
\* that starts there, when that run holds three newlines or more
MatchBlank(s, i) ==
    LET w == RunLen(s, i, Whitespace)
        nls == {k \in i..(i + w - 1) : s[k] = NL}
    IN  IF i <= Len(s) /\ s[i] = NL /\ Cardinality(nls) >= 3
        THEN (CHOOSE k \in nls : \A j \in nls : k >= j) - i + 1 ELSE 0

MatchLen(pat, s, i) ==
    CASE pat = "head" -> MatchHead(s, i)
      [] pat = "page" -> MatchPage(s, i)
      [] pat = "issued" -> MatchIssued(s, i)
      [] pat = "yours" -> MatchYours(s, i)
      [] pat = "stars" -> MatchStars(s, i)
      [] pat = "blank" -> MatchBlank(s, i)

\* re.sub(pat, repl, s): leftmost, non-overlapping matches, scanned from i
RECURSIVE SubFrom(_, _, _, _)
SubFrom(pat, repl, s, i) ==
    LET hits == {k \in i..Len(s) : MatchLen(pat, s, k) > 0}
    IN  IF hits = {} THEN SubSeq(s, i, Len(s))
        ELSE LET k == CHOOSE h \in hits : \A j \in hits : h <= j
             IN  SubSeq(s, i, k - 1) \o repl
                     \o SubFrom(pat, repl, s, k + MatchLen(pat, s, k))

ReSub(pat, repl, s) == SubFrom(pat, repl, s, 1)

clean_extracted_text(text) ==
    IF text = None \/ text = <<>> THEN <<>>
    ELSE LET t1 == ReSub("head", <<>>, text)
             t2 == ReSub("page", <<>>, t1)
             t3 == ReSub("issued", <<>>, t2)
             t4 == ReSub("yours", <<>>, t3)
             t5 == ReSub("stars", <<>>, t4)
             t6 == ReSub("blank", <<NL, NL>>, t5)
         IN  Strip(t6)

(***************************************************************************)
(* extract_text_from_pdf                                                   *)
(*                                                                         *)
(* A page is what the PDF library and the OCR engine answer for it:        *)
(*   text   page.get_text("text")                                          *)
(*   frags  the fragment texts of ocr_reader.readtext, in returned order   *)
(*   fault  which call raises: "load" (load_page), "render" (get_pixmap /  *)
(*          Image.frombytes), "ocr" (readtext), or "none"                  *)
(* A document is [valid |-> fitz.open succeeds, pages |-> its pages].      *)
(***************************************************************************)
OcrThreshold == 500
DefaultMaxPages == 20
Sentinel == <<"s", "=", "3">>

Min(a, b) == IF a < b THEN a ELSE b

\* str.lower()
LowerStr(s) == [k \in 1..Len(s) |-> Lower(s[k])]

\* Join with the separator left out
Join_NoSeparator(sep, parts) == Concat(parts)

\* sep.join(parts)
RECURSIVE Join(_, _)
Join(sep, parts) ==
    IF parts = <<>> THEN <<>>
    ELSE IF Len(parts) = 1 THEN parts[1]
    ELSE parts[1] \o sep \o Join(sep, Tail(parts))

\* UseOCR with the threshold itself counted as too short
UseOCR_Inclusive(text) ==
    /\ Len(Strip(text)) <= OcrThreshold
    /\ ~MatchLit(LowerStr(Strip(text)), 1, Sentinel, FALSE)

\* line 32: len(text.strip()) < 500 and not text.strip().lower().startswith("s=3")
UseOCR(text) ==
    /\ Len(Strip(text)) < OcrThreshold
    /\ ~MatchLit(LowerStr(Strip(text)), 1, Sentinel, FALSE)

\* PageLimit with max_pages ignored
PageLimit_NoCap(d, maxp) == Len(d.pages)

\* line 27: range(min(doc.page_count, max_pages))
PageLimit(d, maxp) == Min(Len(d.pages), maxp)

\* lines 28-39, one iteration of the loop: whether it raises, whether the
\* branch of lines 33-37 is entered, and the text appended to all_text
PageOutcome(p) ==
    IF p.fault = "load"
    THEN [raised |-> TRUE, ocr |-> FALSE, text |-> <<>>]
    ELSE IF UseOCR(p.text)
         THEN IF p.fault \in {"render", "ocr"}
              THEN [raised |-> TRUE, ocr |-> TRUE, text |-> <<>>]
              ELSE [raised |-> FALSE, ocr |-> TRUE,
                    text |-> Join(<<SP>>, p.frags) \o <<NL>>]
         ELSE [raised |-> FALSE, ocr |-> FALSE, text |-> p.text \o <<NL>>]

\* lines 24-44 as a function of the document: the loop from page k (1-based)
\* with all_text = acc; errors counts the st.error calls of line 42, ocr
\* lists the 0-based numbers of the pages that entered lines 33-37
RECURSIVE ExtractLoop(_, _, _, _, _)
ExtractLoop(d, maxp, k, acc, ocrs) ==
    IF k > PageLimit(d, maxp)
    THEN [ret |-> acc, errors |-> 0, ocr |-> ocrs]
    ELSE LET o == PageOutcome(d.pages[k])
             ocrs2 == IF o.ocr THEN Append(ocrs, k - 1) ELSE ocrs
         IN  IF o.raised
             THEN [ret |-> None, errors |-> 1, ocr |-> ocrs2]
             ELSE ExtractLoop(d, maxp, k + 1, acc \o o.text, ocrs2)

extract_text_from_pdf(d, maxp) ==
    IF ~d.valid
    THEN [ret |-> None, errors |-> 1, ocr |-> <<>>]
    ELSE ExtractLoop(d, maxp, 1, <<>>, <<>>)

(***************************************************************************)
(* Documents of the extractor runs                                         *)
(***************************************************************************)
MaxDocPages == 2

DigitChars == <<"0", "1", "2", "3", "4", "5", "6", "7", "8", "9">>
\* two characters that identify page k
Mark(k) == <<DigitChars[(k \div 10) + 1], DigitChars[(k % 10) + 1]>>

PageKinds == {"native500", "short499", "padded", "sentinel", "scanned",
              "blank", "badload", "badrender", "badocr", "nativefault"}

PageOf(kind, k) ==
    CASE kind = "native500" ->
           [text |-> Mark(k) \o Rep("x", OcrThreshold - 2),
            frags |-> << <<"o">> >>, fault |-> "none"]
      [] kind = "nativefault" ->
           [text |-> Mark(k) \o Rep("y", OcrThreshold - 2),
            frags |-> << <<"o">> >>, fault |-> "render"]
      [] kind = "short499" ->
           [text |-> Mark(k) \o Rep("x", OcrThreshold - 3),
            frags |-> << <<"o">>, Mark(k) >>, fault |-> "none"]
      [] kind = "padded" ->
           [text |-> <<SP>> \o Mark(k) \o Rep("x", OcrThreshold - 3) \o <<NL>>,
            frags |-> << <<"w">>, Mark(k) >>, fault |-> "none"]
      [] kind = "sentinel" ->
           [text |-> <<NL, "S", "=", "3", SP>> \o Mark(k),
            frags |-> << <<"o">> >>, fault |-> "none"]
      [] kind = "scanned" ->
           [text |-> <<>>,
            frags |-> << <<"p">>, Mark(k), <<"q">> >>, fault |-> "none"]
      [] kind = "blank" ->
           [text |-> <<NL>>, frags |-> <<>>, fault |-> "none"]
      [] kind = "badload" ->
           [text |-> <<>>, frags |-> << <<"p">> >>, fault |-> "load"]
      [] kind = "badrender" ->
           [text |-> <<"s", "=">>, frags |-> << <<"p">> >>, fault |-> "render"]
      [] kind = "badocr" ->
           [text |-> <<>>, frags |-> << <<"p">> >>, fault |-> "ocr"]

DocOfKinds(ks) == [valid |-> TRUE, pages |-> [k \in 1..Len(ks) |-> PageOf(ks[k], k)]]
LongDoc(n) == [valid |-> TRUE, pages |-> [k \in 1..n |-> PageOf("scanned", k)]]
CorruptDoc == [valid |-> FALSE, pages |-> <<>>]

KindSeqs == UNION {[1..n -> PageKinds] : n \in 0..MaxDocPages}

ExtractDocs ==
    {DocOfKinds(ks) : ks \in KindSeqs}
        \cup {LongDoc(DefaultMaxPages), LongDoc(DefaultMaxPages + 1), CorruptDoc}

MaxPagesChoices == {1, MaxDocPages, DefaultMaxPages}

(***************************************************************************)
(* get_llm_analysis                                                        *)
(*                                                                         *)
(* outcome is what the generative service does with the one request:       *)
(*   "ok"        generate_content returns and response.text is body        *)
(*   "callfail"  generate_content raises, str(e) = body                    *)
(*   "textfail"  response.text raises, str(e) = body                       *)
(***************************************************************************)
NoTextMsg == <<"No text extracted from PDF for analysis.">>
ErrPrefix == <<"Error communicating with Gemini API: ">>
PromptHead == <<"<template lines 64-96>">>
PromptTail == <<"<template lines 98-100>">>
NoPrompt == <<"<no request>">>

Outcomes ==
    {[kind |-> "ok", body |-> <<"<generated summary>">>],
     [kind |-> "callfail", body |-> <<"<401 invalid API key>">>],
     [kind |-> "callfail", body |-> <<"<429 quota exceeded>">>],
     [kind |-> "textfail", body |-> <<"<response has no text part>">>]}
NoOutcome == [kind |-> "none", body |-> <<>>]

\* get_llm_analysis with one more attempt after a failed one
get_llm_analysis_Retry(document_text, outcome) ==
    IF document_text = None \/ document_text = <<>>
    THEN [text |-> NoTextMsg, calls |-> 0, sent |-> NoPrompt, raised |-> FALSE]
    ELSE LET prompt == PromptHead \o document_text \o PromptTail
         IN  IF outcome.kind = "ok"
             THEN [text |-> outcome.body, calls |-> 1, sent |-> prompt,
                   raised |-> FALSE]
             ELSE [text |-> ErrPrefix \o outcome.body, calls |-> 2,
                   sent |-> prompt, raised |-> FALSE]

\* get_llm_analysis with response.text read outside the try block
get_llm_analysis_TextOutsideTry(document_text, outcome) ==
    IF document_text = None \/ document_text = <<>>
    THEN [text |-> NoTextMsg, calls |-> 0, sent |-> NoPrompt, raised |-> FALSE]
    ELSE LET prompt == PromptHead \o document_text \o PromptTail
         IN  IF outcome.kind = "ok"
             THEN [text |-> outcome.body, calls |-> 1, sent |-> prompt,
                   raised |-> FALSE]
             ELSE IF outcome.kind = "textfail"
             THEN [text |-> <<>>, calls |-> 1, sent |-> prompt, raised |-> TRUE]
             ELSE [text |-> ErrPrefix \o outcome.body, calls |-> 1,
                   sent |-> prompt, raised |-> FALSE]

get_llm_analysis(document_text, outcome) ==
    IF document_text = None \/ document_text = <<>>
    THEN [text |-> NoTextMsg, calls |-> 0, sent |-> NoPrompt, raised |-> FALSE]
    ELSE LET prompt == PromptHead \o document_text \o PromptTail
         IN  IF outcome.kind = "ok"
             THEN [text |-> outcome.body, calls |-> 1, sent |-> prompt,
                   raised |-> FALSE]
             ELSE [text |-> ErrPrefix \o outcome.body, calls |-> 1,
                   sent |-> prompt, raised |-> FALSE]

(***************************************************************************)
(* Specification SpecClean: clean_extracted_text applied to a text and     *)
(* then to its own output                                                  *)
(***************************************************************************)
MaxFrags == 4

Fragments ==
    {<<"P","a","g","e"," ","1">>, <<" ","o","f"," ","2">>, <<"*">>,
     <<"Y","o","u","r","s"," ">>, <<"f","a","i","t","h","f","u","l","l","y",",">>,
     <<NL>>, <<SP>>, <<"a">>}

CleanInputs == {Concat(fs) : fs \in UNION {[1..n -> Fragments] : n \in 0..MaxFrags}}

XIdle ==
    /\ doc = CorruptDoc /\ max_pages = DefaultMaxPages /\ page_num = 0
    /\ all_text = <<>> /\ xpc = "idle" /\ xret = None /\ xerrors = 0
    /\ ocr_log = <<>>

CIdle == cin = <<>> /\ cout1 = <<>> /\ cout2 = <<>> /\ cpc = "idle"

NoFile == [nofile |-> TRUE]
NoAnalysis == <<"<nothing rendered>">>
StartEvent == [kind |-> "start", outcome |-> NoOutcome]

UIdle ==
    /\ uploaded = NoFile /\ has_key = FALSE /\ extracted_text = None
    /\ notes = <<>> /\ analysis = NoAnalysis /\ button_shown = FALSE
    /\ clicks = 0 /\ llm_calls = 0 /\ analyze_calls = 0
    /\ last_sent = NoPrompt /\ last_event = StartEvent
    /\ extracted_now = FALSE

CleanInit ==
    /\ cin \in CleanInputs
    /\ cout1 = <<>> /\ cout2 = <<>> /\ cpc = "in"
    /\ XIdle /\ UIdle

Normalize ==
    /\ cpc = "in"
    /\ cout1' = clean_extracted_text(cin)
    /\ cpc' = "once"
    /\ UNCHANGED <<cin, cout2, xvars, uvars>>

Renormalize ==
    /\ cpc = "once"
    /\ cout2' = clean_extracted_text(cout1)
    /\ cpc' = "twice"
    /\ UNCHANGED <<cin, cout1, xvars, uvars>>

CleanNext == Normalize \/ Renormalize
SpecClean == CleanInit /\ [][CleanNext]_vars

(***************************************************************************)
(* Specification SpecExtract: one call of extract_text_from_pdf, one loop  *)
(* iteration per step.  page_num is the 0-based index of the next page.    *)
(***************************************************************************)
Pending == <<"<pending>">>

ExtractInit ==
    /\ doc \in ExtractDocs
    /\ max_pages \in MaxPagesChoices
    /\ page_num = 0 /\ all_text = <<>> /\ xpc = "open"
    /\ xret = Pending /\ xerrors = 0 /\ ocr_log = <<>>
    /\ CIdle /\ UIdle

\* line 26 raises: lines 41-43
XOpenFail ==
    /\ xpc = "open" /\ ~doc.valid
    /\ xerrors' = xerrors + 1
    /\ xret' = None
    /\ xpc' = "done"
    /\ UNCHANGED <<doc, max_pages, page_num, all_text, ocr_log, cvars, uvars>>

XOpenOk ==
    /\ xpc = "open" /\ doc.valid
    /\ xpc' = "loop"
    /\ UNCHANGED <<doc, max_pages, page_num, all_text, xret, xerrors, ocr_log,
                   cvars, uvars>>

\* an iteration that raises: lines 41-43
XPageFail ==
    /\ xpc = "loop" /\ page_num < PageLimit(doc, max_pages)
    /\ LET o == PageOutcome(doc.pages[page_num + 1])
       IN  /\ o.raised
           /\ ocr_log' = IF o.ocr THEN Append(ocr_log, page_num) ELSE ocr_log
    /\ xerrors' = xerrors + 1
    /\ xret' = None
    /\ xpc' = "done"
    /\ UNCHANGED <<doc, max_pages, page_num, all_text, cvars, uvars>>

\* lines 33-37
XPageOcr ==
    /\ xpc = "loop" /\ page_num < PageLimit(doc, max_pages)
    /\ LET o == PageOutcome(doc.pages[page_num + 1])
       IN  /\ ~o.raised /\ o.ocr
           /\ all_text' = all_text \o o.text
    /\ ocr_log' = Append(ocr_log, page_num)
    /\ page_num' = page_num + 1
    /\ UNCHANGED <<doc, max_pages, xpc, xret, xerrors, cvars, uvars>>

\* line 39
XPageNative ==
    /\ xpc = "loop" /\ page_num < PageLimit(doc, max_pages)
    /\ LET o == PageOutcome(doc.pages[page_num + 1])
       IN  /\ ~o.raised /\ ~o.ocr
           /\ all_text' = all_text \o o.text
    /\ page_num' = page_num + 1
    /\ UNCHANGED <<doc, max_pages, xpc, xret, xerrors, ocr_log, cvars, uvars>>

\* lines 40 and 44
XClose ==
    /\ xpc = "loop" /\ page_num >= PageLimit(doc, max_pages)
    /\ xret' = all_text
    /\ xpc' = "done"
    /\ UNCHANGED <<doc, max_pages, page_num, all_text, xerrors, ocr_log,
                   cvars, uvars>>

ExtractNext ==
    XOpenFail \/ XOpenOk \/ XPageFail \/ XPageOcr \/ XPageNative \/ XClose
SpecExtract == ExtractInit /\ [][ExtractNext]_vars

(***************************************************************************)
(* Specification Spec: one Streamlit session.  Every user interaction      *)
(* re-executes lines 110-135 from the top; st.session_state survives the   *)
(* re-executions, everything rendered is rebuilt by each of them.          *)
(*   notes         the st.error / st.success / st.info boxes of the last   *)
(*                 run, in order                                           *)
(*   analysis      what line 131 rendered in the last run                  *)
(*   button_shown  the last run reached line 127                           *)
(*   llm_calls     model.generate_content calls made so far                *)
(*   analyze_calls get_llm_analysis calls made so far                      *)
(*   last_sent     the prompt of the latest generate_content call          *)
(*   extracted_now the last run executed line 121                          *)
(***************************************************************************)
MaxClicks == 2

ErrProcessing == "error: Error processing PDF: <e>"
ErrFailed == "error: Failed to extract text from the uploaded PDF."
Success == "success: Text extraction complete!"
Info == "info: Please upload a PDF to begin analysis."
Unhandled == "exception: uncaught in script run"

BoilerDoc ==
    [valid |-> TRUE,
     pages |-> << [text |-> <<>>,
                   frags |-> << <<"P","a","g","e">>, <<"1">>, <<"o","f">>, <<"2">> >>,
                   fault |-> "none"] >>]

UIDocs ==
    {DocOfKinds(<<"scanned">>), DocOfKinds(<<"scanned", "scanned">>),
     DocOfKinds(<<"sentinel", "scanned">>), DocOfKinds(<<"scanned", "blank">>),
     DocOfKinds(<<"blank">>), BoilerDoc,
     DocOfKinds(<<"scanned", "badocr">>), CorruptDoc}

\* truth value of a str-or-None in an if
Truthy(t) == t # None /\ t # <<>>

\* what a run that does not reach line 129 gets from the analysis step
NoCall == [text |-> NoAnalysis, calls |-> 0, sent |-> NoPrompt, raised |-> FALSE]

\* lines 116-135 with uploaded_pdf = file, st.button(...) = clicked and the
\* generative service answering outcome.  x is the extraction of line 121
\* when the session holds no text yet and the held text otherwise; r is the
\* call of line 129 when the run reaches it.
ScriptRun(file, clicked, outcome) ==
    IF file = NoFile
    THEN /\ notes' = <<Info>>
         /\ analysis' = NoAnalysis
         /\ button_shown' = FALSE
         /\ extracted_now' = FALSE
         /\ UNCHANGED <<has_key, extracted_text, llm_calls, analyze_calls,
                        last_sent>>
    ELSE \E x \in {IF has_key THEN [ret |-> extracted_text, errors |-> 0, ocr |-> <<>>]
                   ELSE extract_text_from_pdf(file, DefaultMaxPages)} :
         \E r \in {IF Truthy(x.ret) /\ clicked
                   THEN get_llm_analysis(clean_extracted_text(x.ret), outcome)
                   ELSE NoCall} :
             /\ has_key' = TRUE
             /\ extracted_text' = x.ret
             /\ extracted_now' = ~has_key
             /\ llm_calls' = llm_calls + r.calls
             /\ last_sent' = IF r.calls > 0 THEN r.sent ELSE last_sent
             /\ IF Truthy(x.ret)
                THEN /\ button_shown' = TRUE
                     /\ analyze_calls' = IF clicked THEN analyze_calls + 1
                                         ELSE analyze_calls
                     /\ notes' = [k \in 1..x.errors |-> ErrProcessing]
                                    \o (IF r.raised THEN <<Success, Unhandled>>
                                        ELSE <<Success>>)
                     /\ analysis' = IF r.raised THEN NoAnalysis ELSE r.text
                ELSE /\ button_shown' = FALSE
                     /\ analyze_calls' = analyze_calls
                     /\ notes' = [k \in 1..x.errors |-> ErrProcessing] \o <<ErrFailed>>
                     /\ analysis' = NoAnalysis

\* the first run of the script in a new session: no file yet
Init ==
    /\ uploaded = NoFile /\ has_key = FALSE /\ extracted_text = None
    /\ notes = <<Info>> /\ analysis = NoAnalysis /\ button_shown = FALSE
    /\ clicks = 0 /\ llm_calls = 0 /\ analyze_calls = 0
    /\ last_sent = NoPrompt /\ last_event = StartEvent
    /\ extracted_now = FALSE
    /\ CIdle /\ XIdle

\* the user puts a PDF into the uploader (the first one, or another one in
\* place of the current one)
Upload ==
    \E d \in UIDocs :
        /\ d # uploaded
        /\ uploaded' = d
        /\ last_event' = [kind |-> "upload", outcome |-> NoOutcome]
        /\ ScriptRun(d, FALSE, NoOutcome)
        /\ UNCHANGED <<clicks, cvars, xvars>>

\* the user clears the uploader
RemoveFile ==
    /\ uploaded # NoFile
    /\ uploaded' = NoFile
    /\ last_event' = [kind |-> "remove", outcome |-> NoOutcome]
    /\ ScriptRun(NoFile, FALSE, NoOutcome)
    /\ UNCHANGED <<clicks, cvars, xvars>>

\* the user clicks "Analyze with AI", which the last run rendered
ClickAnalyze ==
    /\ button_shown
    /\ clicks < MaxClicks
    /\ \E o \in Outcomes :
        /\ clicks' = clicks + 1
        /\ last_event' = [kind |-> "click", outcome |-> o]
        /\ ScriptRun(uploaded, TRUE, o)
        /\ UNCHANGED <<uploaded, cvars, xvars>>

Next == Upload \/ RemoveFile \/ ClickAnalyze
Spec == Init /\ [][Next]_vars

(***************************************************************************)
(* Properties                                                              *)
(***************************************************************************)
Range(f) == {f[k] : k \in DOMAIN f}

\* the stripped native text is under the threshold and does not start
\* with s=3 in either case
BelowAndNoSentinel(t) ==
    LET st == Strip(t)
    IN  /\ Len(st) <= OcrThreshold - 1
        /\ ~(Len(st) >= 3 /\ st[1] \in {"s", "S"} /\ st[2] = "=" /\ st[3] = "3")

\* the fragments in their order with one space between neighbours
SpaceJoined(fs) ==
    Concat([k \in 1..Len(fs) |-> IF k = 1 THEN fs[k] ELSE <<SP>> \o fs[k]])

\* a loop iteration on a page that load_page delivered
IterationOn(p) ==
    /\ xpc = "loop"
    /\ page_num < Len(doc.pages) /\ page_num < max_pages
    /\ p = doc.pages[page_num + 1]
    /\ p.fault # "load"
    /\ <<page_num, xpc, ocr_log, all_text>>' # <<page_num, xpc, ocr_log, all_text>>

\* C1: normalizing the output of a normalization gives that output again.
C1_Idempotent == cpc = "twice" => cout2 = cout1

\* C2: whatever failed earlier in the session, a run triggered by uploading
\* a PDF that extracts to non-empty text shows the success notification.
C2_Recoverable ==
    (/\ last_event.kind = "upload"
     /\ Truthy(extract_text_from_pdf(uploaded, DefaultMaxPages).ret))
        => Success \in Range(notes)

\* C3: when the text held for the uploaded PDF is empty, or is non-empty but
\* normalizes to nothing, the run shows a notification that is neither one
\* of the extraction-failure errors nor the success or upload prompt, and
\* get_llm_analysis has not been called.
C3_EmptyInput ==
    (/\ uploaded # NoFile
     /\ has_key
     /\ \/ extracted_text = <<>>
        \/ Truthy(extracted_text) /\ clean_extracted_text(extracted_text) = <<>>)
        => /\ \E k \in DOMAIN notes :
                notes[k] \notin {ErrProcessing, ErrFailed, Success, Info}
           /\ analyze_calls = 0

\* C4: a run whose extraction hit an error holds None (no partial text) and
\* shows exactly one error notification.
C4_SingleError ==
    (/\ extracted_now
     /\ extract_text_from_pdf(uploaded, DefaultMaxPages).errors > 0)
        => /\ extracted_text = None
           /\ Cardinality({k \in DOMAIN notes :
                              notes[k] \in {ErrProcessing, ErrFailed}}) = 1

\* C5: an iteration enters the OCR branch exactly when the stripped native
\* text is shorter than 500 characters and does not begin with s=3 (any
\* case), and otherwise appends the native text unchanged; a document whose
\* pages all have 500 or more stripped characters never enters it.
C5_Step ==
    \A p \in Range(doc.pages) :
        IterationOn(p) =>
            /\ (ocr_log' = Append(ocr_log, page_num)) <=> BelowAndNoSentinel(p.text)
            /\ ocr_log' # ocr_log => ocr_log' = Append(ocr_log, page_num)
            /\ ~BelowAndNoSentinel(p.text) =>
                  /\ all_text' = all_text \o p.text \o <<NL>>
                  /\ page_num' = page_num + 1
C5_AllNative ==
    (\A k \in DOMAIN doc.pages : Len(Strip(doc.pages[k].text)) >= OcrThreshold)
        => ocr_log = <<>>
C5_OcrDecision == [][C5_Step]_vars /\ []C5_AllNative

C5_Witness ==
    /\ xpc = "done" /\ xret # None
    /\ Len(doc.pages) = 2 /\ max_pages >= 2
    /\ Len(Strip(doc.pages[1].text)) = OcrThreshold
    /\ Len(Strip(doc.pages[2].text)) = OcrThreshold - 1
    /\ ocr_log = <<1>>

\* C6 as stated: every iteration on a page whose stripped native text is
\* under the threshold enters the OCR branch and, when it completes,
\* contributes the space-joined fragments.
C6_Original ==
    [][\A p \in Range(doc.pages) :
          (IterationOn(p) /\ Len(Strip(p.text)) < OcrThreshold) =>
              /\ ocr_log' = Append(ocr_log, page_num)
              /\ page_num' = page_num + 1 =>
                    all_text' = all_text \o SpaceJoined(p.frags) \o <<NL>>]_vars

\* C6 amended: every iteration on a page whose stripped native text is under
\* the threshold and does not begin with s=3 (any case) enters the OCR
\* branch and, when it completes, contributes the space-joined fragments in
\* their returned order and nothing of the native text.
C6_OcrContribution ==
    [][\A p \in Range(doc.pages) :
          (IterationOn(p) /\ BelowAndNoSentinel(p.text)) =>
              /\ ocr_log' = Append(ocr_log, page_num)
              /\ page_num' = page_num + 1 =>
                    all_text' = all_text \o SpaceJoined(p.frags) \o <<NL>>]_vars

C6_Witness ==
    /\ page_num = 1 /\ ocr_log = <<0>>
    /\ doc.pages[1].frags = << <<"p">>, <<"0", "1">>, <<"q">> >>
    /\ all_text = <<"p", SP, "0", "1", SP, "q", NL>>

\* C7: a successful extraction returns, in ascending page order, the result
\* of each of the first min(page_count, max_pages) pages once, each followed
\* by a newline; pages past the limit add nothing and cannot make it fail.
PageResult(p) ==
    IF BelowAndNoSentinel(p.text) THEN SpaceJoined(p.frags) ELSE p.text
FirstPages == 1..Min(Len(doc.pages), max_pages)
C7_OrderAndLimit ==
    xpc = "done" =>
        /\ xret # None =>
              xret = Concat([k \in FirstPages |-> PageResult(doc.pages[k]) \o <<NL>>])
        /\ (/\ doc.valid
            /\ \A k \in FirstPages :
                  \/ doc.pages[k].fault = "none"
                  \/ doc.pages[k].fault # "load" /\ ~BelowAndNoSentinel(doc.pages[k].text))
              => xret # None /\ xerrors = 0

C7_Witness ==
    /\ xpc = "done" /\ xret # None
    /\ Len(doc.pages) = DefaultMaxPages + 1 /\ max_pages = DefaultMaxPages
    /\ Len(xret) = 7 * DefaultMaxPages

\* C8: a get_llm_analysis call makes no outbound call and returns the fixed
\* message when its text is empty, and exactly one outbound call otherwise,
\* failed or not; outbound calls happen only in a run triggered by a click,
\* one per click at most.
C8_Step ==
    /\ llm_calls' # llm_calls =>
          /\ clicks' = clicks + 1
          /\ llm_calls' = llm_calls + 1
          /\ analyze_calls' = analyze_calls + 1
    /\ analyze_calls' # analyze_calls =>
          /\ analyze_calls' = analyze_calls + 1
          /\ clicks' = clicks + 1
          /\ IF clean_extracted_text(extracted_text') = <<>>
             THEN llm_calls' = llm_calls /\ analysis' = NoTextMsg
             ELSE llm_calls' = llm_calls + 1
C8_CallCount == [][C8_Step]_vars

C8_Witness ==
    /\ last_event.kind = "click"
    /\ last_event.outcome.kind = "callfail"
    /\ clicks >= 2 /\ llm_calls = clicks

\* C9: a click on non-empty text always ends with something rendered as the
\* analysis and no uncaught exception; when the service call or the reading
\* of its response failed, what is rendered contains the failure detail.
Contains(s, part) ==
    \E k \in 1..Len(s) : k + Len(part) - 1 <= Len(s)
                            /\ SubSeq(s, k, k + Len(part) - 1) = part
C9_FailureRendered ==
    (/\ last_event.kind = "click"
     /\ clean_extracted_text(extracted_text) # <<>>)
        => /\ analysis # NoAnalysis
           /\ Unhandled \notin Range(notes)
           /\ last_event.outcome.kind # "ok" =>
                 Contains(analysis, last_event.outcome.body)

C9_Witness ==
    /\ last_event.kind = "click"
    /\ last_event.outcome.kind = "textfail"
    /\ clean_extracted_text(extracted_text) # <<>>
    /\ Contains(analysis, last_event.outcome.body)

\* C10: whenever the success notification is shown or a click was handled,
\* the text held in the session is the extraction of the PDF now uploaded.
C10_CacheFresh ==
    (/\ uploaded # NoFile
     /\ Success \in Range(notes) \/ last_event.kind = "click")
        => extracted_text = extract_text_from_pdf(uploaded, DefaultMaxPages).ret

====
